---------------------------- MODULE Spec2Model ----------------------------
(***************************************************************************)
(* A model of app.py: the facility loader (load_facility_data), the        *)
(* overlay renderer (inject_facility_markers_into_html) and the script     *)
(* that Streamlit runs from the top at every interaction of a session.     *)
(*                                                                         *)
(* Strings are sequences of one-character strings, so that strip, replace, *)
(* endswith and the digit conversions are computed and not assumed.  A     *)
(* DataFrame cell is a tagged value [t, n, s]: t is the Python type of the *)
(* cell, n its number (int, whole float, bool as 1/0) and s its text.      *)
(***************************************************************************)
EXTENDS Integers, Sequences, FiniteSets, TLC

VARIABLES
    dir_exists,               \* FACILITY_LOCATION_FILES_DIR.exists()
    csv_files,                \* the directory's *.csv files, in glob order, with what read_csv yields
    load_pc,                  \* position in load_facility_data: "start", "loop", "done"
    i,                        \* the loop index of `for i, csv_file in enumerate(csv_files)`
    consolidated_facilities,  \* the list of cleaned per-file frames
    messages,                 \* the st.warning / st.info calls made so far
    combined_df,              \* the returned value: [none |-> BOOLEAN, rows |-> Seq(row)]
    facilities_df,            \* the collection handed to inject_facility_markers_into_html
    original_html,            \* the document handed to its latest call
    map_html,                 \* the document: as read from the map file, then as returned
    applied,                  \* the number of calls made on the document
    secrets,                  \* st.secrets: "set" (app_password defined), "no_key", "no_file"
    authenticated,            \* st.session_state["authenticated"]: "unset", "false", "true"
    run_pc,                   \* position of the script run: "off", "wait", "secrets", "gate",
                              \* "controls", "overlay", "loading", "display", "stopped", "end"
    login_clicked,            \* st.button("Login") of this run
    password_ok,              \* password_input == PASSWORD in this run
    show_facility_overlay,    \* the 'Show Individual Facilities' checkbox of this run
    facility_data,            \* the script's facility_data
    map_file,                 \* the file at map_path: [exists |-> BOOLEAN, html |-> its text]
    displayed,                \* the document given to st.components.v1.html in this run
    cache                     \* what st.cache_data holds for load_facility_data

load_vars == <<dir_exists, csv_files, load_pc, i, consolidated_facilities, messages, combined_df>>

render_vars == <<facilities_df, original_html, map_html, applied>>

run_vars == <<secrets, authenticated, run_pc, login_clicked, password_ok, show_facility_overlay,
              facility_data, map_file, displayed, cache>>

vars == <<load_vars, render_vars, run_vars>>

-----------------------------------------------------------------------------
(* Bounds of the model *)

MaxRows == 2
MaxFiles == 3
MaxDocLen == 3
MaxApplied == 2
MaxTextLen == 2

-----------------------------------------------------------------------------
(* Sequences and strings *)

SeqsUpTo(S, n) == UNION {[1..k -> S] : k \in 0..n}

Range(s) == {s[k] : k \in 1..Len(s)}

RECURSIVE Flatten(_)
Flatten(ss) == IF ss = <<>> THEN <<>> ELSE Head(ss) \o Flatten(Tail(ss))

RECURSIVE SumLen(_)
SumLen(ss) == IF ss = <<>> THEN 0 ELSE Len(Head(ss)) + SumLen(Tail(ss))

EndsWith(s, p) == Len(s) >= Len(p) /\ SubSeq(s, Len(s) - Len(p) + 1, Len(s)) = p

\* `p in s` for one piece p of the text
Contains(s, p) == \E k \in 1..Len(s) : s[k] = p

\* str.replace(old, new) where old is one piece of the text: every occurrence
\* is replaced, left to right, and the replacement is not scanned again
RECURSIVE Replace(_, _, _)
Replace(s, old, new) ==
    IF s = <<>> THEN <<>>
    ELSE IF Len(s) = 1 THEN (IF s[1] = old THEN new ELSE s)
    ELSE LET h == Len(s) \div 2 IN
         Replace(SubSeq(s, 1, h), old, new) \o Replace(SubSeq(s, h + 1, Len(s)), old, new)

Whitespace == {" ", "\n", "\t", "\r"}

RECURSIVE LStrip(_)
LStrip(s) == IF s # <<>> /\ Head(s) \in Whitespace THEN LStrip(Tail(s)) ELSE s

RECURSIVE RStrip(_)
RStrip(s) ==
    IF s # <<>> /\ s[Len(s)] \in Whitespace THEN RStrip(SubSeq(s, 1, Len(s) - 1)) ELSE s

\* str.strip()
Strip(s) == RStrip(LStrip(s))

Digits == <<"0", "1", "2", "3", "4", "5", "6", "7", "8", "9">>

DigitChars == Range(Digits)

DigitVal(c) == CHOOSE d \in 0..9 : Digits[d + 1] = c

RECURSIVE NatStr(_)
NatStr(n) == IF n < 10 THEN <<Digits[n + 1]>> ELSE NatStr(n \div 10) \o <<Digits[(n % 10) + 1]>>

\* str(n) of an int
IntStr(n) == IF n < 0 THEN <<"-">> \o NatStr(-n) ELSE NatStr(n)

RECURSIVE DigitsVal(_, _)
DigitsVal(s, acc) == IF s = <<>> THEN acc ELSE DigitsVal(Tail(s), 10 * acc + DigitVal(Head(s)))

-----------------------------------------------------------------------------
(* DataFrame cells *)

NaN == [t |-> "nan", n |-> 0, s |-> <<>>]
I(n) == [t |-> "int", n |-> n, s |-> <<>>]
F(n) == [t |-> "float", n |-> n, s |-> <<>>]
B(b) == [t |-> "bool", n |-> IF b THEN 1 ELSE 0, s |-> <<>>]
S(s) == [t |-> "str", n |-> 0, s |-> s]

\* pd.notnull(x)
NotNull(x) == x.t # "nan"

IsNumber(x) == x.t \in {"int", "float", "bool"}

\* str(x), as astype(str) applies it to each cell
AsStr(x) ==
    CASE x.t = "nan" -> <<"n", "a", "n">>
      [] x.t = "int" -> IntStr(x.n)
      [] x.t = "float" -> IntStr(x.n) \o <<".", "0">>
      [] x.t = "bool" -> IF x.n = 1 THEN <<"T", "r", "u", "e">> ELSE <<"F", "a", "l", "s", "e">>
      [] OTHER -> x.s


-----------------------------------------------------------------------------
(* load_facility_data: the cleaning steps of one file *)

required_columns ==
    <<"NPI", "Group Name", "Street Address", "City", "State", "Zip", "Latitude", "Longitude",
      "is_substance_abuse_rehab", "is_sud_rehab_clinic">>

\* [col for col in required_columns if col not in df.columns]
missing_cols(df) == SelectSeq(required_columns, LAMBDA col : col \notin df.columns)

\* dropna(subset=['Group Name', 'Latitude', 'Longitude']) keeps the row
DropnaKeeps(r) == NotNull(r.GroupName) /\ NotNull(r.Latitude) /\ NotNull(r.Longitude)

\* comparing a str cell with a number raises TypeError
BetweenRaises(x) == ~IsNumber(x)

\* Series.between(left, right): left <= x <= right, both ends included
Between(x, left, right) == left <= x.n /\ x.n <= right

\* InRange without the longitude test
InRangeLatitudeOnly(r) == Between(r.Latitude, -90, 90)

\* the mask of lines 122-125
InRange(r) == Between(r.Latitude, -90, 90) /\ Between(r.Longitude, -180, 180)

\* astype(str).str.strip()
CleanText(x) == S(Strip(AsStr(x)))

\* float(x) of a text ending in '.0' raises ValueError unless the text before
\* it is an optional sign and digits
FloatRaises(x) ==
    LET p == SubSeq(x, 1, Len(x) - 2)
        d == IF p # <<>> /\ Head(p) \in {"-", "+"} THEN Tail(p) ELSE p
    IN  \E k \in 1..Len(d) : d[k] \notin DigitChars

\* str(int(float(x))) of a text ending in '.0' that float() accepts
IntOfFloatStr(x) ==
    LET p == SubSeq(x, 1, Len(x) - 2)
        neg == p # <<>> /\ Head(p) = "-"
        d == IF p # <<>> /\ Head(p) \in {"-", "+"} THEN Tail(p) ELSE p
        v == DigitsVal(d, 0)
    IN  IntStr(IF neg THEN -v ELSE v)

\* the condition of the lambda of line 136, on the stripped text
ZipIsNumericLike(x) == EndsWith(x, <<".", "0">>)

ZipRaises(z) == LET x == Strip(AsStr(z)) IN ZipIsNumericLike(x) /\ FloatRaises(x)

\* CleanZip without the conversion of line 136
CleanZipStripOnly(z) == S(Strip(AsStr(z)))

\* lines 134-136
CleanZip(z) ==
    LET x == Strip(AsStr(z)) IN S(IF ZipIsNumericLike(x) THEN IntOfFloatStr(x) ELSE x)

\* x is True
IsTrueObject(x) == x.t = "bool" /\ x.n = 1

\* x is False
IsFalseObject(x) == x.t = "bool" /\ x.n = 0

\* x == k for a number k: a str or a NaN cell equals no number
EqNumber(x, k) == IsNumber(x) /\ x.n = k

FlagTrue == <<"T", "r", "u", "e">>
FlagFalse == <<"F", "a", "l", "s", "e">>
FlagNA == <<"N", "/", "A">>

\* NormalizeFlag by Python truthiness: any non-zero number, non-empty text or NaN is true
NormalizeFlagTruthy(x) ==
    IF (IsNumber(x) /\ x.n # 0) \/ (x.t = "str" /\ x.s # <<>>) \/ x.t = "nan" THEN S(FlagTrue)
    ELSE IF IsNumber(x) THEN S(FlagFalse)
    ELSE S(FlagNA)

\* the lambda of lines 142-146
NormalizeFlag(x) ==
    IF IsTrueObject(x) \/ EqNumber(x, 1) THEN S(FlagTrue)
    ELSE IF IsFalseObject(x) \/ EqNumber(x, 0) THEN S(FlagFalse)
    ELSE S(FlagNA)

\* lines 117-146 applied to one row that the filters kept
CleanRow(r, name) ==
    [NPI |-> r.NPI,
     GroupName |-> CleanText(r.GroupName),
     StreetAddress |-> CleanText(r.StreetAddress),
     City |-> CleanText(r.City),
     State |-> CleanText(r.State),
     Zip |-> CleanZip(r.Zip),
     Latitude |-> r.Latitude,
     Longitude |-> r.Longitude,
     is_substance_abuse_rehab |-> NormalizeFlag(r.is_substance_abuse_rehab),
     is_sud_rehab_clinic |-> NormalizeFlag(r.is_sud_rehab_clinic),
     source_file |-> name]

\* the rows left by dropna
AfterDropna(df) == SelectSeq(df.rows, DropnaKeeps)

\* the rows left by the coordinate mask
AfterRange(df) == SelectSeq(AfterDropna(df), InRange)

\* an exception inside the try block: read_csv fails, a coordinate column holds
\* text, or a zip ending in '.0' is not a number
FileRaises(df) ==
    \/ ~df.readable
    \/ /\ missing_cols(df) = <<>>
       /\ \/ \E k \in 1..Len(AfterDropna(df)) :
                \/ BetweenRaises(AfterDropna(df)[k].Latitude)
                \/ BetweenRaises(AfterDropna(df)[k].Longitude)
          \/ \E k \in 1..Len(AfterRange(df)) : ZipRaises(AfterRange(df)[k].Zip)

\* facility_df as appended at line 148
CleanFile(df) == [k \in 1..Len(AfterRange(df)) |-> CleanRow(AfterRange(df)[k], df.name)]

-----------------------------------------------------------------------------
(* load_facility_data: the function *)

NoFile == <<>>

Message(level, what, file, cols) == [level |-> level, what |-> what, file |-> file, cols |-> cols]

\* the value `None`
None == [none |-> TRUE, rows |-> <<>>]

\* a DataFrame holding rows
Frame(rows) == [none |-> FALSE, rows |-> rows]

RECURSIVE DropDuplicates(_, _)
DropDuplicates(rows, seen) ==
    IF rows = <<>> THEN <<>>
    ELSE LET key == [Head(rows) EXCEPT !.source_file = NoFile] IN
         IF key \in seen THEN DropDuplicates(Tail(rows), seen)
         ELSE <<Head(rows)>> \o DropDuplicates(Tail(rows), seen \cup {key})

\* Concat followed by a drop of the rows that repeat an earlier facility
ConcatDropDuplicates(frames) == [none |-> FALSE, rows |-> DropDuplicates(Flatten(frames), {})]

\* pd.concat(frames, ignore_index=True); each cell keeps its type (no file here
\* gives a column another numeric type than the other files do)
Concat(frames) == Frame(Flatten(frames))

\* lines 88-103: the directory and the glob, both early returns
LoadStart ==
    /\ load_pc = "start"
    /\ IF ~dir_exists
       THEN /\ messages' = Append(messages, Message("warning", "dir_not_found", NoFile, <<>>))
            /\ combined_df' = None
            /\ load_pc' = "done"
       ELSE IF csv_files = <<>>
       THEN /\ messages' = Append(messages, Message("info", "no_csv_files", NoFile, <<>>))
            /\ combined_df' = None
            /\ load_pc' = "done"
       ELSE /\ load_pc' = "loop"
            /\ UNCHANGED <<messages, combined_df>>
    /\ UNCHANGED <<dir_exists, csv_files, i, consolidated_facilities, render_vars, run_vars>>

\* ProcessFile with `break` in place of `continue` at line 114
ProcessFileBreak ==
    /\ load_pc = "loop"
    /\ i <= Len(csv_files)
    /\ LET df == csv_files[i] IN
         IF ~df.readable
         THEN /\ messages' = Append(messages, Message("warning", "could_not_process", df.name, <<>>))
              /\ i' = i + 1
              /\ UNCHANGED consolidated_facilities
         ELSE IF missing_cols(df) # <<>>
         THEN /\ messages' =
                   Append(messages, Message("warning", "missing_columns", df.name, missing_cols(df)))
              /\ i' = Len(csv_files) + 1
              /\ UNCHANGED consolidated_facilities
         ELSE IF FileRaises(df)
         THEN /\ messages' = Append(messages, Message("warning", "could_not_process", df.name, <<>>))
              /\ i' = i + 1
              /\ UNCHANGED consolidated_facilities
         ELSE /\ consolidated_facilities' = Append(consolidated_facilities, CleanFile(df))
              /\ i' = i + 1
              /\ UNCHANGED messages
    /\ UNCHANGED <<dir_exists, csv_files, load_pc, combined_df, render_vars, run_vars>>

\* ProcessFile with the try block around the loop: the first exception ends the load
ProcessFileAbort ==
    /\ load_pc = "loop"
    /\ i <= Len(csv_files)
    /\ LET df == csv_files[i] IN
         IF ~df.readable \/ (missing_cols(df) = <<>> /\ FileRaises(df))
         THEN /\ messages' = Append(messages, Message("warning", "could_not_process", df.name, <<>>))
              /\ i' = Len(csv_files) + 1
              /\ UNCHANGED consolidated_facilities
         ELSE IF missing_cols(df) # <<>>
         THEN /\ messages' =
                   Append(messages, Message("warning", "missing_columns", df.name, missing_cols(df)))
              /\ i' = i + 1
              /\ UNCHANGED consolidated_facilities
         ELSE /\ consolidated_facilities' = Append(consolidated_facilities, CleanFile(df))
              /\ i' = i + 1
              /\ UNCHANGED messages
    /\ UNCHANGED <<dir_exists, csv_files, load_pc, combined_df, render_vars, run_vars>>

\* lines 105-153: one iteration of the loop over csv_files (i counts from 1)
ProcessFile ==
    /\ load_pc = "loop"
    /\ i <= Len(csv_files)
    /\ LET df == csv_files[i] IN
         IF ~df.readable
         THEN /\ messages' = Append(messages, Message("warning", "could_not_process", df.name, <<>>))
              /\ UNCHANGED consolidated_facilities
         ELSE IF missing_cols(df) # <<>>
         THEN /\ messages' =
                   Append(messages, Message("warning", "missing_columns", df.name, missing_cols(df)))
              /\ UNCHANGED consolidated_facilities
         ELSE IF FileRaises(df)
         THEN /\ messages' = Append(messages, Message("warning", "could_not_process", df.name, <<>>))
              /\ UNCHANGED consolidated_facilities
         ELSE /\ consolidated_facilities' = Append(consolidated_facilities, CleanFile(df))
              /\ UNCHANGED messages
    /\ i' = i + 1
    /\ UNCHANGED <<dir_exists, csv_files, load_pc, combined_df, render_vars, run_vars>>

\* lines 155-162: the concatenation and the return
LoadFinish ==
    /\ load_pc = "loop"
    /\ i > Len(csv_files)
    /\ combined_df' = IF consolidated_facilities # <<>> THEN Concat(consolidated_facilities) ELSE None
    /\ load_pc' = "done"
    /\ UNCHANGED <<dir_exists, csv_files, i, consolidated_facilities, messages, render_vars, run_vars>>

NextLoad == LoadStart \/ ProcessFile \/ LoadFinish

\* no document read and no call of the renderer made
RenderIdle ==
    /\ facilities_df = None
    /\ original_html = <<>>
    /\ map_html = <<>>
    /\ applied = 0

\* nothing displayed
NotShown == [shown |-> FALSE, html |-> <<>>]

\* no file at map_path
NoMapFile == [exists |-> FALSE, html |-> <<>>]

\* nothing cached for load_facility_data
NoCache == [set |-> FALSE, value |-> None, msgs |-> <<>>]

\* the function is called on its own: no script run is in progress
ScriptOff ==
    /\ secrets = "set"
    /\ authenticated = "unset"
    /\ run_pc = "off"
    /\ login_clicked = FALSE
    /\ password_ok = FALSE
    /\ show_facility_overlay = FALSE
    /\ facility_data = None
    /\ map_file = NoMapFile
    /\ displayed = NotShown
    /\ cache = NoCache

\* the state at the call of load_facility_data, the directory left open
LoadEntry ==
    /\ load_pc = "start"
    /\ i = 1
    /\ consolidated_facilities = <<>>
    /\ messages = <<>>
    /\ combined_df = None
    /\ RenderIdle
    /\ ScriptOff

\* load_facility_data not called
LoadIdle ==
    /\ dir_exists = TRUE
    /\ csv_files = <<>>
    /\ load_pc = "idle"
    /\ i = 1
    /\ consolidated_facilities = <<>>
    /\ messages = <<>>
    /\ combined_df = None

-----------------------------------------------------------------------------
(* The inputs: what the directory holds *)

Txt(c) == S(<<c>>)

\* the name of the k-th file of the listing
FileName(k) == <<"f">> \o NatStr(k) \o <<".", "c", "s", "v">>

AllColumns == Range(required_columns)

\* a row that every filter keeps
GoodRow ==
    [NPI |-> I(1), GroupName |-> S(<<" ", "A", " ">>), StreetAddress |-> S(<<"M", " ">>),
     City |-> Txt("C"), State |-> NaN, Zip |-> F(12),
     Latitude |-> F(45), Longitude |-> F(-100),
     is_substance_abuse_rehab |-> I(1), is_sud_rehab_clinic |-> I(0)]

NameCells == {NaN, S(<<" ", "A", " ">>)}
LatitudeCells == {NaN, F(-91), F(-90), F(90), F(91), Txt("x")}
LongitudeCells == {NaN, F(-181), F(-180), F(180), F(181), Txt("x")}

\* rows over every combination of name, latitude and longitude
CoordinateRows ==
    {[GoodRow EXCEPT !.GroupName = nm, !.Latitude = la, !.Longitude = lo] :
        nm \in NameCells, la \in LatitudeCells, lo \in LongitudeCells}

\* what read_csv yields for one file
Content(readable, columns, rows) == [readable |-> readable, columns |-> columns, rows |-> rows]

\* the listing list(glob("*.csv")) of a directory holding these contents
Listing(cs) ==
    [k \in 1..Len(cs) |->
        [name |-> FileName(k), readable |-> cs[k].readable, columns |-> cs[k].columns,
         rows |-> cs[k].rows]]

\* one readable file with all columns, its rows drawn from CoordinateRows
InitRows ==
    /\ dir_exists = TRUE
    /\ \E rows \in SeqsUpTo(CoordinateRows, MaxRows) :
           csv_files = Listing(<<Content(TRUE, AllColumns, rows)>>)
    /\ LoadEntry

SpecRows == InitRows /\ [][NextLoad]_vars

\* rows for directories of several files: two rows the filters keep, a row the
\* coordinate mask drops, and a row whose zip makes float() raise
RowA == GoodRow
RowB == [GoodRow EXCEPT !.NPI = I(2), !.Zip = I(34), !.Latitude = F(-90), !.Longitude = F(180)]
RowOutOfRange == [GoodRow EXCEPT !.NPI = I(3), !.Latitude = F(91)]
RowBadZip == [GoodRow EXCEPT !.NPI = I(4), !.Zip = S(<<"x", ".", "0">>)]

\* the row sequences of a complete file: empty, kept rows in both orders, a
\* dropped row between kept ones, only a dropped row, a raising row after a kept one
FileRows ==
    {<<>>, <<RowA>>, <<RowA, RowB>>, <<RowB, RowA>>, <<RowA, RowOutOfRange, RowB>>,
     <<RowOutOfRange>>, <<RowA, RowBadZip>>}

\* what a file may hold: all columns and one of these row sequences, one
\* required column lacking, or nothing read_csv can read
FileContents ==
    {Content(TRUE, AllColumns, rows) : rows \in FileRows}
    \cup {Content(TRUE, AllColumns \ {col}, <<RowA, RowB>>) : col \in AllColumns}
    \cup {Content(FALSE, {}, <<>>)}

\* a directory that may be missing, or holds up to MaxFiles files
InitFiles ==
    /\ dir_exists \in BOOLEAN
    /\ IF dir_exists
       THEN \E cs \in SeqsUpTo(FileContents, MaxFiles) : csv_files = Listing(cs)
       ELSE csv_files = <<>>
    /\ LoadEntry

SpecFiles == InitFiles /\ [][NextLoad]_vars

\* the cells a flag column may hold: the nine values of the documented domain
\* and three more
FlagCells ==
    {B(TRUE), B(FALSE), I(1), I(0), F(1), F(0), S(<<>>), NaN, S(<<"m", "a", "y", "b", "e">>),
     I(2), Txt("1"), S(FlagTrue)}

\* one readable file of one kept row, its two flags drawn from FlagCells
InitFlags ==
    /\ dir_exists = TRUE
    /\ \E sa \in FlagCells, sud \in FlagCells :
           csv_files =
               Listing(<<Content(TRUE, AllColumns,
                                 <<[GoodRow EXCEPT !.is_substance_abuse_rehab = sa,
                                                   !.is_sud_rehab_clinic = sud]>>)>>)
    /\ LoadEntry

SpecFlags == InitFlags /\ [][NextLoad]_vars

-----------------------------------------------------------------------------
(* inject_facility_markers_into_html: the generated script *)

(* A document is a sequence of pieces of text: single characters where the   *)
(* code looks at characters (the facility's fields, quotes, newlines) and    *)
(* longer pieces for the fixed text of the templates, whose indentation and  *)
(* JavaScript comments are left out.                                         *)

BodyClose == "</body>"
ClusterCss == "MarkerCluster.css"
MapPiece == "var map_1 = L.map('map_1', {});"
AddLayerPiece == "mapObj.addLayer(facilityCluster);"
LayerControlPiece ==
    "if (!mapObj.layerControl) { mapObj.layerControl = L.control.layers({}, {'Individual Facilities': facilityCluster}).addTo(mapObj); } else { var existingOverlays = mapObj.layerControl._layers.filter(layer => layer.overlay).map(layer => layer.name); if (!existingOverlays.includes('Individual Facilities')) { mapObj.layerControl.addOverlay(facilityCluster, 'Individual Facilities'); } }"
BindPopupPiece == "', fillOpacity: 0.7}).bindPopup("
PopupClosePiece == ", {maxWidth: 300});"
Quote == "\""
Backslash == "\\"
Newline == "\n"

\* str.lower() of one piece; a piece that holds neither marker in any case is left as it is
LowerPiece(c) ==
    CASE c = ClusterCss -> "markercluster.css"
      [] c = "</BODY>" -> BodyClose
      [] c = "A" -> "a"
      [] c = "M" -> "m"
      [] c = "C" -> "c"
      [] OTHER -> c

Lower(html) == [k \in 1..Len(html) |-> LowerPiece(html[k])]

\* lines 175-190: the block that loads the MarkerCluster plugin
LoaderBlock ==
    <<"var clusterCSS = document.createElement('link'); clusterCSS.rel = 'stylesheet'; clusterCSS.href = 'https://unpkg.com/leaflet.markercluster@1.4.1/dist/",
      ClusterCss,
      "'; document.head.appendChild(clusterCSS); var clusterDefaultCSS = document.createElement('link'); clusterDefaultCSS.rel = 'stylesheet'; clusterDefaultCSS.href = 'https://unpkg.com/leaflet.markercluster@1.4.1/dist/MarkerCluster.Default.css'; document.head.appendChild(clusterDefaultCSS); var clusterJS = document.createElement('script'); clusterJS.src = 'https://unpkg.com/leaflet.markercluster@1.4.1/dist/leaflet.markercluster.js'; document.head.appendChild(clusterJS);">>

\* lines 193-210: the start of the delayed function and the cluster group
HeadBlock ==
    <<"setTimeout(function() { var mapObj = window[Object.keys(window).find(key => key.startsWith('map_'))]; if (mapObj) {",
      "var facilityCluster = L.markerClusterGroup({showCoverageOnHover: false, zoomToBoundsOnClick: true, spiderfyOnMaxZoom: false, removeOutsideVisibleBounds: true, disableClusteringAtZoom: 13});">>

\* lines 277-297: the cluster added to the map and to the layer control
TailBlock == <<AddLayerPiece, LayerControlPiece, "} }, 1000);">>

\* facility.get(col) == 'True'
IsTrueText(x) == x.t = "str" /\ x.s = FlagTrue

\* Classify with the two single-flag branches tested before the both-flags branch
ClassifySubstanceFirst(is_substance_abuse, is_sud_clinic) ==
    IF IsTrueText(is_substance_abuse)
    THEN [fill_color |-> "#FF0000", facility_type_desc |-> "Substance Abuse Rehab"]
    ELSE IF IsTrueText(is_sud_clinic)
    THEN [fill_color |-> "#0000FF", facility_type_desc |-> "SUD Rehab Clinic"]
    ELSE IF IsTrueText(is_substance_abuse) /\ IsTrueText(is_sud_clinic)
    THEN [fill_color |-> "#800080",
          facility_type_desc |-> "Substance Abuse Rehab & SUD Rehab Clinic"]
    ELSE [fill_color |-> "#808080", facility_type_desc |-> "Other/Unknown"]

\* lines 219-234: fill colour and description from the two flags
Classify(is_substance_abuse, is_sud_clinic) ==
    IF IsTrueText(is_substance_abuse) /\ IsTrueText(is_sud_clinic)
    THEN [fill_color |-> "#800080",
          facility_type_desc |-> "Substance Abuse Rehab & SUD Rehab Clinic"]
    ELSE IF IsTrueText(is_substance_abuse)
    THEN [fill_color |-> "#FF0000", facility_type_desc |-> "Substance Abuse Rehab"]
    ELSE IF IsTrueText(is_sud_clinic)
    THEN [fill_color |-> "#0000FF", facility_type_desc |-> "SUD Rehab Clinic"]
    ELSE [fill_color |-> "#808080", facility_type_desc |-> "Other/Unknown"]

\* f"{x:.4f}" of a whole number, 'N/A' for a missing one (lines 246-247)
Format4(x) ==
    IF NotNull(x) THEN IntStr(x.n) \o <<".", "0", "0", "0", "0">> ELSE <<"N", "/", "A">>

\* lines 249-260: the popup before escaping
PopupTemplate(facility) ==
    LET kind == Classify(facility.is_substance_abuse_rehab, facility.is_sud_rehab_clinic) IN
    <<Newline, "        <b>NPI:</b> ">> \o AsStr(facility.NPI)
    \o <<"<br>", Newline, "        <b>Facility Name:</b> ">> \o AsStr(facility.GroupName)
    \o <<"<br>", Newline, "        <b>Facility Type:</b> ", kind.facility_type_desc>>
    \o <<"<br>", Newline, "        <b>Street Address:</b> ">> \o AsStr(facility.StreetAddress)
    \o <<"<br>", Newline, "        <b>City:</b> ">> \o AsStr(facility.City)
    \o <<"<br>", Newline, "        <b>State:</b> ">> \o AsStr(facility.State)
    \o <<"<br>", Newline, "        <b>Zip:</b> ">> \o AsStr(facility.Zip)
    \o <<"<br>", Newline, "        <b>Coordinates:</b> ">> \o Format4(facility.Latitude)
    \o <<",", " ">> \o Format4(facility.Longitude)
    \o <<"<br>", Newline, "        <br>", Newline, "        <b>is_substance_abuse_rehab:</b> ">>
    \o AsStr(facility.is_substance_abuse_rehab)
    \o <<"<br>", Newline, "        <b>is_sud_rehab_clinic:</b> ">>
    \o AsStr(facility.is_sud_rehab_clinic)
    \o <<"<br>", Newline, "        ">>

\* line 261: .replace('"', '\\"').replace('\n', '\\n')
Escape(text) == Replace(Replace(text, Quote, <<Backslash, Quote>>), Newline, <<Backslash, "n">>)

popup_html(facility) == Escape(PopupTemplate(facility))

\* lines 263-274: the marker of the facility at index idx
MarkerBlock(idx, facility) ==
    LET kind == Classify(facility.is_substance_abuse_rehab, facility.is_sud_rehab_clinic) IN
    <<"var marker_">> \o IntStr(idx) \o <<" = L.circleMarker([">> \o AsStr(facility.Latitude)
    \o <<",", " ">> \o AsStr(facility.Longitude)
    \o <<"], {radius: 7, color: '", "#000000", "', weight: 2, opacity: 0.9, fillColor: '",
         kind.fill_color, BindPopupPiece, Quote>>
    \o popup_html(facility)
    \o <<Quote, PopupClosePiece, "facilityCluster.addLayer(marker_">> \o IntStr(idx) \o <<");">>

\* '\n'.join(blocks)
RECURSIVE JoinLines(_)
JoinLines(blocks) ==
    IF blocks = <<>> THEN <<>>
    ELSE IF Len(blocks) = 1 THEN Head(blocks)
    ELSE Head(blocks) \o <<Newline>> \o JoinLines(Tail(blocks))

\* lines 170-300: facility_js_code; iterrows gives the index from 0
facility_js_code(html, df) ==
    (IF ~Contains(Lower(html), "markercluster.css") THEN <<LoaderBlock>> ELSE <<>>)
    \o <<HeadBlock>>
    \o [k \in 1..Len(df.rows) |-> MarkerBlock(k - 1, df.rows[k])]
    \o <<TailBlock>>

\* line 303
script_tag(html, df) == <<"<script>">> \o JoinLines(facility_js_code(html, df)) \o <<"</script>">>

\* InjectMarkers that returns early for None only, not for an empty frame
InjectMarkersNoneOnly(html, df) ==
    IF df.none
    THEN html
    ELSE IF Contains(html, BodyClose)
    THEN Replace(html, BodyClose, script_tag(html, df) \o <<Newline, BodyClose>>)
    ELSE html \o script_tag(html, df)

\* lines 164-312: the value inject_facility_markers_into_html returns
InjectMarkers(html, df) ==
    IF df.none \/ df.rows = <<>>
    THEN html
    ELSE IF Contains(html, BodyClose)
    THEN Replace(html, BodyClose, script_tag(html, df) \o <<Newline, BodyClose>>)
    ELSE html \o script_tag(html, df)

\* line 371: map_html = inject_facility_markers_into_html(map_html, facility_data)
Inject ==
    /\ applied < MaxApplied
    /\ original_html' = map_html
    /\ map_html' = InjectMarkers(map_html, facilities_df)
    /\ applied' = applied + 1
    /\ UNCHANGED <<facilities_df, load_vars, run_vars>>

NextRender == Inject

-----------------------------------------------------------------------------
(* The browser: what the scripts of a document do to the map *)

\* the page defines a folium map object
HasMap(html) == \E k \in 1..Len(html) : html[k] = MapPiece

\* the map after these statements have run, in order: the cluster layers
\* added to it, whether mapObj.layerControl is set, and its 'Individual
\* Facilities' overlays
RECURSIVE Run(_, _)
Run(statements, map) ==
    IF statements = <<>> THEN map
    ELSE IF Head(statements) = AddLayerPiece
    THEN Run(Tail(statements), [map EXCEPT !.layers = @ + 1])
    ELSE Run(Tail(statements),
             IF ~map.layerControl THEN [map EXCEPT !.layerControl = TRUE, !.overlays = 1]
             ELSE IF map.overlays = 0 THEN [map EXCEPT !.overlays = 1]
             ELSE map)

\* the map once every delayed function of the page has run
RunScripts(html) ==
    IF HasMap(html)
    THEN Run(SelectSeq(html, LAMBDA c : c \in {AddLayerPiece, LayerControlPiece}),
             [layers |-> 0, layerControl |-> FALSE, overlays |-> 0])
    ELSE [layers |-> 0, layerControl |-> FALSE, overlays |-> 0]

\* the index of the piece that ends the JavaScript string literal whose
\* opening quote is just before k: a backslash takes the next piece with it,
\* a quote ends the literal, a line break or the end of the text leaves it open (0)
RECURSIVE LiteralEnd(_, _)
LiteralEnd(html, k) ==
    IF k > Len(html) THEN 0
    ELSE IF html[k] = Backslash THEN LiteralEnd(html, k + 2)
    ELSE IF html[k] = Quote THEN k
    ELSE IF html[k] \in {Newline, "\r"} THEN 0
    ELSE LiteralEnd(html, k + 1)

-----------------------------------------------------------------------------
(* The renderer's inputs *)

\* the pieces a base document is made of
DocPieces == {MapPiece, BodyClose, "</BODY>", ClusterCss}

\* a facility as the loader returns it, its flags from these cells
RenderFlagCells == {I(1), I(0), NaN}

RenderRow(sa, sud) ==
    CleanRow([GoodRow EXCEPT !.is_substance_abuse_rehab = sa, !.is_sud_rehab_clinic = sud],
             FileName(1))

RenderRows == {RenderRow(sa, sud) : sa \in RenderFlagCells, sud \in RenderFlagCells}

\* no collection, an empty one, one facility, or two
RenderCollections ==
    {None, Frame(<<>>)}
    \cup {Frame(<<r>>) : r \in RenderRows}
    \cup {Frame(<<r, RenderRow(I(1), I(1))>>) : r \in RenderRows}

\* any base document of up to MaxDocLen pieces and any of the collections
InitRender ==
    /\ LoadIdle
    /\ ScriptOff
    /\ map_html \in SeqsUpTo(DocPieces, MaxDocLen)
    /\ original_html = <<>>
    /\ facilities_df \in RenderCollections
    /\ applied = 0

SpecRender == InitRender /\ [][NextRender]_vars

\* the characters of a facility's text
TextChars == {"a", Quote, Backslash, Newline}

TextFields == {"NPI", "GroupName", "StreetAddress", "City", "State", "Zip"}

\* GoodRow as the loader returns it, one text field replaced
RowWithText(field, text) ==
    LET r == CleanRow(GoodRow, FileName(1)) IN
    [f \in DOMAIN r |-> IF f = field THEN S(text) ELSE r[f]]

\* a one-facility collection with any text of up to MaxTextLen characters in
\* one of its six text fields, and a base document with or without </body>
InitText ==
    /\ LoadIdle
    /\ ScriptOff
    /\ map_html \in {<<MapPiece, BodyClose>>, <<MapPiece>>}
    /\ original_html = <<>>
    /\ \E field \in TextFields : \E text \in SeqsUpTo(TextChars, MaxTextLen) :
           facilities_df = Frame(<<RowWithText(field, text)>>)
    /\ applied = 0

SpecText == InitText /\ [][NextRender]_vars

-----------------------------------------------------------------------------
(* The loader's claims *)

Loaded == load_pc = "done" /\ dir_exists

Output == combined_df.rows

\* the output rows that name this file as their source
RowsFrom(name) == SelectSeq(Output, LAMBDA r : r.source_file = name)

\* the file is not appended: it cannot be read, lacks a column, or raises
Skipped(df) == ~df.readable \/ missing_cols(df) # <<>> \/ FileRaises(df)

\* the rows a file adds to the result
Contribution(df) == IF Skipped(df) THEN <<>> ELSE CleanFile(df)

\* the rows load_facility_data returns for a listing
ResultRows(files) == Flatten([k \in 1..Len(files) |-> Contribution(files[k])])

Remove(s, k) == SubSeq(s, 1, k - 1) \o SubSeq(s, k + 1, Len(s))

MessagesAbout(name) == SelectSeq(messages, LAMBDA m : m.file = name)

\* a source row with a name, a latitude in [-90, 90] and a longitude in [-180, 180]
ValidSource(r) ==
    /\ r.GroupName.t # "nan"
    /\ r.Latitude.t \in {"int", "float"} /\ r.Latitude.n \in -90..90
    /\ r.Longitude.t \in {"int", "float"} /\ r.Longitude.n \in -180..180

\* C1: every row of the returned collection has a present Group Name, a present
\* Latitude within [-90, 90] and a present Longitude within [-180, 180], and is
\* the cleaned form of a source row that has all three; so a source row lacking
\* one of them, or with a coordinate out of range, is not in the output.
C1_RetainedRowsValid ==
    Loaded =>
        /\ Len(Output) <=
               SumLen([f \in 1..Len(csv_files) |-> SelectSeq(csv_files[f].rows, ValidSource)])
        /\ \A k \in 1..Len(Output) :
            LET r == Output[k] IN
            /\ r.GroupName.t # "nan"
            /\ r.Latitude.t \in {"int", "float"} /\ r.Latitude.n \in -90..90
            /\ r.Longitude.t \in {"int", "float"} /\ r.Longitude.n \in -180..180
            /\ \E f \in 1..Len(csv_files) : \E j \in 1..Len(csv_files[f].rows) :
                   /\ ValidSource(csv_files[f].rows[j])
                   /\ r = CleanRow(csv_files[f].rows[j], csv_files[f].name)

\* a load that returned one row of a file whose other row had latitude 91
C1_Witness ==
    /\ Loaded
    /\ Len(Output) = 1
    /\ Len(csv_files[1].rows) = 2
    /\ csv_files[1].rows[1].Latitude = F(91)
    /\ csv_files[1].rows[2].Longitude = F(-180)

\* C2: a file lacking a required column contributes no row, and the result is
\* the result of the same directory without that file, wherever the file stands.
C2_MissingColumnIsolated ==
    Loaded =>
        \A k \in 1..Len(csv_files) :
            (csv_files[k].readable /\ \E col \in AllColumns : col \notin csv_files[k].columns) =>
                /\ RowsFrom(csv_files[k].name) = <<>>
                /\ Output = ResultRows(Remove(csv_files, k))
                /\ \A j \in 1..Len(csv_files) :
                       j # k => RowsFrom(csv_files[j].name) = Contribution(csv_files[j])

\* three files, the middle one without 'Zip', the outer ones contributing rows
C2_Witness ==
    /\ Loaded
    /\ Len(csv_files) = 3
    /\ csv_files[2].columns = AllColumns \ {"Zip"}
    /\ RowsFrom(csv_files[1].name) # <<>>
    /\ RowsFrom(csv_files[3].name) # <<>>
    /\ RowsFrom(csv_files[2].name) = <<>>

\* C3: the flag normalization maps True, 1 and 1.0 to 'True', False, 0 and 0.0
\* to 'False', and every other value (the empty string, a missing value,
\* "maybe") to 'N/A', in both flag columns.
C3_FlagTable ==
    LET Expected(x) ==
            IF x \in {B(TRUE), I(1), F(1)} THEN S(FlagTrue)
            ELSE IF x \in {B(FALSE), I(0), F(0)} THEN S(FlagFalse)
            ELSE S(FlagNA)
        src == csv_files[1].rows[1]
    IN  (Loaded /\ Len(csv_files) = 1 /\ Len(csv_files[1].rows) = 1) =>
            /\ Len(Output) = 1
            /\ Output[1].is_substance_abuse_rehab = Expected(src.is_substance_abuse_rehab)
            /\ Output[1].is_sud_rehab_clinic = Expected(src.is_sud_rehab_clinic)

\* a load of a row whose flags were "maybe" and 1.0
C3_Witness ==
    /\ Loaded
    /\ Len(Output) = 1
    /\ csv_files[1].rows[1].is_substance_abuse_rehab = S(<<"m", "a", "y", "b", "e">>)
    /\ csv_files[1].rows[1].is_sud_rehab_clinic = F(1)
    /\ Output[1].is_substance_abuse_rehab = S(FlagNA)
    /\ Output[1].is_sud_rehab_clinic = S(FlagTrue)

\* C8: a file whose reading or cleaning raises is skipped with one warning: it
\* contributes no row, every file is still processed, and the rows of every
\* other file are in the result.
C8_RaisingFileSkipped ==
    Loaded =>
        /\ csv_files # <<>> => i = Len(csv_files) + 1
        /\ \A k \in 1..Len(csv_files) :
               (~csv_files[k].readable \/ FileRaises(csv_files[k])) =>
                   /\ RowsFrom(csv_files[k].name) = <<>>
                   /\ MessagesAbout(csv_files[k].name) =
                          <<Message("warning", "could_not_process", csv_files[k].name, <<>>)>>
                   /\ \A j \in 1..Len(csv_files) :
                          j # k => RowsFrom(csv_files[j].name) = Contribution(csv_files[j])

\* an unreadable file first, a file raising in the zip conversion second, a
\* file with rows last
C8_Witness ==
    /\ Loaded
    /\ Len(csv_files) = 3
    /\ ~csv_files[1].readable
    /\ csv_files[2].rows = <<RowA, RowBadZip>> /\ csv_files[2].columns = AllColumns
    /\ Len(RowsFrom(csv_files[3].name)) = 2
    /\ Len(Output) = 2
    /\ Len(messages) = 2

\* C9: the result is the concatenation, in processing order, of the retained
\* rows of every file that was not skipped; its length is the sum of their
\* lengths, and each skipped file has exactly one warning.
C9_OrderedConcatenation ==
    Loaded =>
        /\ Output = Flatten([k \in 1..Len(csv_files) |-> Contribution(csv_files[k])])
        /\ Len(Output) = SumLen([k \in 1..Len(csv_files) |-> Contribution(csv_files[k])])
        /\ \A k \in 1..Len(csv_files) :
               Len(MessagesAbout(csv_files[k].name)) = IF Skipped(csv_files[k]) THEN 1 ELSE 0
        /\ combined_df.none <=> \A k \in 1..Len(csv_files) : Skipped(csv_files[k])

\* three files: the first retains two rows, the second lacks 'Zip', the third
\* retains the same facility as the first; three rows and one warning
C9_Witness ==
    /\ Loaded
    /\ Len(csv_files) = 3
    /\ csv_files[1].rows = <<RowB, RowA>> /\ csv_files[1].columns = AllColumns
    /\ csv_files[2].columns = AllColumns \ {"Zip"}
    /\ csv_files[3].rows = <<RowA>> /\ csv_files[3].columns = AllColumns
    /\ Len(Output) = 3
    /\ Output[2].NPI = Output[3].NPI
    /\ Len(messages) = 1

-----------------------------------------------------------------------------
(* The renderer's claims *)

NonEmpty(df) == ~df.none /\ df.rows # <<>>

Count(s, p) == Cardinality({k \in 1..Len(s) : s[k] = p})

FillColors == {"#800080", "#FF0000", "#0000FF", "#808080"}

\* the fill colours of the markers of a document, in order
FillsOf(html) == SelectSeq(html, LAMBDA c : c \in FillColors)

TypeDescriptions ==
    {"Substance Abuse Rehab & SUD Rehab Clinic", "Substance Abuse Rehab", "SUD Rehab Clinic",
     "Other/Unknown"}

\* the type descriptions of the popups of a document, in order
DescriptionsOf(html) == SelectSeq(html, LAMBDA c : c \in TypeDescriptions)

\* C4: each facility gets exactly one category by precedence: BOTH (#800080)
\* when both flags are true, SUBSTANCE_ABUSE (#FF0000) when only the
\* substance-abuse flag is, SUD_CLINIC (#0000FF) when only the SUD-clinic flag
\* is, OTHER/UNKNOWN (#808080) otherwise; both flags true is never red or blue.
C4_CategoryByPrecedence ==
    LET T == S(FlagTrue)
        Color(r) ==
            CASE r.is_substance_abuse_rehab = T /\ r.is_sud_rehab_clinic = T -> "#800080"
              [] r.is_substance_abuse_rehab = T /\ r.is_sud_rehab_clinic # T -> "#FF0000"
              [] r.is_substance_abuse_rehab # T /\ r.is_sud_rehab_clinic = T -> "#0000FF"
              [] OTHER -> "#808080"
        Label(r) ==
            CASE r.is_substance_abuse_rehab = T /\ r.is_sud_rehab_clinic = T ->
                     "Substance Abuse Rehab & SUD Rehab Clinic"
              [] r.is_substance_abuse_rehab = T /\ r.is_sud_rehab_clinic # T ->
                     "Substance Abuse Rehab"
              [] r.is_substance_abuse_rehab # T /\ r.is_sud_rehab_clinic = T -> "SUD Rehab Clinic"
              [] OTHER -> "Other/Unknown"
        rows == facilities_df.rows
    IN  (applied = 1 /\ NonEmpty(facilities_df) /\ Count(original_html, BodyClose) <= 1) =>
            /\ FillsOf(map_html) = [k \in 1..Len(rows) |-> Color(rows[k])]
            /\ DescriptionsOf(map_html) = [k \in 1..Len(rows) |-> Label(rows[k])]

\* a facility with only the SUD-clinic flag true, then one with both: blue, then purple
C4_Witness ==
    /\ applied = 1
    /\ Len(facilities_df.rows) = 2
    /\ facilities_df.rows[1].is_substance_abuse_rehab = S(FlagNA)
    /\ facilities_df.rows[1].is_sud_rehab_clinic = S(FlagTrue)
    /\ facilities_df.rows[2].is_substance_abuse_rehab = S(FlagTrue)
    /\ facilities_df.rows[2].is_sud_rehab_clinic = S(FlagTrue)
    /\ FillsOf(map_html) = <<"#0000FF", "#800080">>

\* C5: after a second application, to the output of the first with the same
\* non-empty collection, the page adds one cluster layer to the map and one
\* 'Individual Facilities' overlay, not two.
C5_OneClusterLayer ==
    (applied = 2 /\ NonEmpty(facilities_df) /\ HasMap(map_html)
        /\ Count(map_html, BodyClose) <= 1) =>
        /\ RunScripts(map_html).layers = 1
        /\ RunScripts(map_html).overlays = 1

\* C6: called with an empty or absent collection, the renderer returns the
\* document it was given, unchanged.
C6_EmptyCollectionIdentity ==
    (applied >= 1 /\ ~NonEmpty(facilities_df)) => map_html = original_html

\* a call with an empty frame on a document of three pieces, one of them </body>
C6_Witness ==
    /\ applied = 1
    /\ facilities_df = Frame(<<>>)
    /\ Len(original_html) = 3
    /\ Contains(original_html, BodyClose)
    /\ map_html = original_html

\* C7: with a non-empty collection the output is the input with the script
\* block inserted once: just before one </body> when the input holds that
\* marker, at the end otherwise; nothing else changes.
C7_InsertedOnce ==
    LET tag == script_tag(original_html, facilities_df)
        n == Len(original_html)
    IN  (applied >= 1 /\ NonEmpty(facilities_df)) =>
            IF Contains(original_html, BodyClose)
            THEN \E k \in 1..n :
                    /\ original_html[k] = BodyClose
                    /\ map_html = SubSeq(original_html, 1, k - 1) \o tag \o <<Newline>>
                                    \o SubSeq(original_html, k, n)
            ELSE map_html = original_html \o tag

\* the index of the first marker's .bindPopup( piece, 0 when there is none
FirstBindPopup(html) ==
    IF Contains(html, BindPopupPiece)
    THEN CHOOSE k \in 1..Len(html) :
            html[k] = BindPopupPiece /\ \A j \in 1..(k - 1) : html[j] # BindPopupPiece
    ELSE 0

\* C10: whatever the text fields hold, the popup's double-quoted literal ends
\* at the quote the template closes it with: no field value ends it earlier or
\* leaves it open.
C10_PopupLiteralClosed ==
    LET p == FirstBindPopup(map_html)
        e == LiteralEnd(map_html, p + 2)
    IN  applied = 1 =>
            /\ p # 0
            /\ map_html[p + 1] = Quote
            /\ e # 0
            /\ map_html[e + 1] = PopupClosePiece

-----------------------------------------------------------------------------
(* Postal codes *)

\* the cells a Zip column may hold: whole numbers, floats, a missing value, and
\* texts with and without a '.0' ending
ZipCells ==
    {I(12), F(12), F(0), NaN, S(<<"1", "2", ".", "0">>), S(<<"0", "1", "2", ".", "0">>),
     S(<<" ", "1", "2", ".", "0", " ">>), S(<<".", "0">>), S(<<"1", "-", "2">>),
     S(<<"x", ".", "0">>)}

\* one readable file of up to MaxRows kept rows, their Zip drawn from ZipCells
InitZips ==
    /\ dir_exists = TRUE
    /\ \E zips \in SeqsUpTo(ZipCells, MaxRows) :
           csv_files =
               Listing(<<Content(TRUE, AllColumns,
                                 [k \in 1..Len(zips) |-> [GoodRow EXCEPT !.Zip = zips[k]]])>>)
    /\ LoadEntry

SpecZips == InitZips /\ [][NextLoad]_vars

AllDigits(text) == text # <<>> /\ \A k \in 1..Len(text) : text[k] \in DigitChars

\* C11 as stated: every postal code of the result is a non-empty string of
\* digits that does not end in '.0'.
C11_ZipBareDigits ==
    Loaded =>
        \A k \in 1..Len(Output) :
            /\ Output[k].Zip.t = "str"
            /\ AllDigits(Output[k].Zip.s)
            /\ ~EndsWith(Output[k].Zip.s, <<".", "0">>)

\* C11 as amended: no postal code of the result ends in '.0', and a source
\* value that is a whole float, or a text of digits followed by '.0', appears
\* as the digits of its integer value; any other value keeps its stripped text.
C11_NoTrailingPointZero ==
    LET src == csv_files[1].rows IN
    (Loaded /\ Len(csv_files) = 1) =>
        /\ \A k \in 1..Len(Output) :
               Output[k].Zip.t = "str" /\ ~EndsWith(Output[k].Zip.s, <<".", "0">>)
        /\ Len(Output) = Len(src) =>
               \A k \in 1..Len(src) :
                   LET z == src[k].Zip
                       text == Strip(AsStr(z))
                       whole == SubSeq(text, 1, Len(text) - 2)
                   IN  /\ (z.t = "float" /\ z.n >= 0) => Output[k].Zip.s = NatStr(z.n)
                       /\ (EndsWith(text, <<".", "0">>) /\ AllDigits(whole)) =>
                              /\ AllDigits(Output[k].Zip.s)
                              /\ DigitsVal(Output[k].Zip.s, 0) = DigitsVal(whole, 0)
                       /\ ~EndsWith(text, <<".", "0">>) => Output[k].Zip.s = text

\* a float column with a missing value: 12.0 comes out as '12', NaN as 'nan'
C11_Witness ==
    /\ Loaded
    /\ Len(Output) = 2
    /\ csv_files[1].rows[1].Zip = F(12)
    /\ csv_files[1].rows[2].Zip = NaN
    /\ Output[1].Zip = S(<<"1", "2">>)
    /\ Output[2].Zip = S(<<"n", "a", "n">>)


-----------------------------------------------------------------------------
(* The script: one run from the top at every interaction of the session *)

(* Streamlit clears the page and runs app.py from its first line at every   *)
(* interaction; st.session_state and the st.cache_data store outlive the    *)
(* run, the script's variables and the page do not.  st.stop() ends the run *)
(* where it is called, st.rerun() ends it and starts the next one.          *)

\* line 360 with `facility_data is None` alone
NoFacilityDataNoneOnly(data) == data.none

\* line 360: facility_data is None or facility_data.empty
NoFacilityData(data) == data.none \/ data.rows = <<>>

\* line 370: show_facility_overlay and facility_data is not None and not facility_data.empty
OverlayReady(show, data) == show /\ ~data.none /\ data.rows # <<>>

\* lines 1-16: a run begins on an empty page; the flag is created if the
\* session does not have it
RunStart ==
    /\ run_pc \in {"wait", "stopped", "end", "rerun"}
    /\ authenticated' = IF authenticated = "unset" THEN "false" ELSE authenticated
    /\ run_pc' = "secrets"
    /\ messages' = <<>>
    /\ displayed' = NotShown
    /\ login_clicked' = FALSE
    /\ password_ok' = FALSE
    /\ show_facility_overlay' = FALSE
    /\ facility_data' = None
    /\ map_file' = NoMapFile
    /\ load_pc' = "idle"
    /\ i' = 1
    /\ consolidated_facilities' = <<>>
    /\ combined_df' = None
    /\ facilities_df' = None
    /\ original_html' = <<>>
    /\ map_html' = <<>>
    /\ applied' = 0
    /\ UNCHANGED <<dir_exists, csv_files, secrets, cache>>

\* lines 19-25: the password is read from the secrets; without the key the
\* run reports an error and stops, without a secrets file the lookup raises
\* an exception other than KeyError, which ends the run as well
LoadSecret ==
    /\ run_pc = "secrets"
    /\ IF secrets = "set"
       THEN /\ run_pc' = "gate"
            /\ UNCHANGED messages
       ELSE IF secrets = "no_key"
       THEN /\ messages' = Append(messages, Message("error", "password_not_found", NoFile, <<>>))
            /\ run_pc' = "stopped"
       ELSE /\ messages' = Append(messages, Message("error", "uncaught_exception", NoFile, <<>>))
            /\ run_pc' = "stopped"
    /\ UNCHANGED <<dir_exists, csv_files, load_pc, i, consolidated_facilities, combined_df,
                   render_vars, secrets, authenticated, login_clicked, password_ok,
                   show_facility_overlay, facility_data, map_file, displayed, cache>>

\* LoginGate without the st.stop() of line 37
LoginGateNoStop ==
    /\ run_pc = "gate"
    /\ IF authenticated = "true"
       THEN /\ run_pc' = "controls"
            /\ UNCHANGED <<authenticated, login_clicked, password_ok, messages>>
       ELSE \E clicked \in BOOLEAN, ok \in BOOLEAN :
                /\ login_clicked' = clicked
                /\ password_ok' = ok
                /\ IF clicked /\ ok
                   THEN /\ authenticated' = "true"
                        /\ run_pc' = "rerun"
                        /\ UNCHANGED messages
                   ELSE IF clicked
                   THEN /\ messages' =
                             Append(messages, Message("error", "incorrect_password", NoFile, <<>>))
                        /\ run_pc' = "controls"
                        /\ UNCHANGED authenticated
                   ELSE /\ run_pc' = "controls"
                        /\ UNCHANGED <<authenticated, messages>>
    /\ UNCHANGED <<dir_exists, csv_files, load_pc, i, consolidated_facilities, combined_df,
                   render_vars, secrets, show_facility_overlay, facility_data, map_file,
                   displayed, cache>>

\* lines 27-37: the gate; the text input and the button exist only while the
\* flag is not true
LoginGate ==
    /\ run_pc = "gate"
    /\ IF authenticated = "true"
       THEN /\ run_pc' = "controls"
            /\ UNCHANGED <<authenticated, login_clicked, password_ok, messages>>
       ELSE \E clicked \in BOOLEAN, ok \in BOOLEAN :
                /\ login_clicked' = clicked
                /\ password_ok' = ok
                /\ IF clicked /\ ok
                   THEN /\ authenticated' = "true"
                        /\ run_pc' = "rerun"
                        /\ UNCHANGED messages
                   ELSE IF clicked
                   THEN /\ messages' =
                             Append(messages, Message("error", "incorrect_password", NoFile, <<>>))
                        /\ run_pc' = "stopped"
                        /\ UNCHANGED authenticated
                   ELSE /\ run_pc' = "stopped"
                        /\ UNCHANGED <<authenticated, messages>>
    /\ UNCHANGED <<dir_exists, csv_files, load_pc, i, consolidated_facilities, combined_df,
                   render_vars, secrets, show_facility_overlay, facility_data, map_file,
                   displayed, cache>>

\* the files the selections of the sidebar may lead to: none, a folium page
\* with </body>, one without
MapFiles ==
    {NoMapFile, [exists |-> TRUE, html |-> <<MapPiece, BodyClose>>],
     [exists |-> TRUE, html |-> <<MapPiece>>]}

\* lines 44-82 and 315-352: the sidebar's selections name the map file, and
\* the checkbox asks for the overlay or not
Controls ==
    /\ run_pc = "controls"
    /\ show_facility_overlay' \in BOOLEAN
    /\ map_file' \in MapFiles
    /\ run_pc' = "overlay"
    /\ UNCHANGED <<load_vars, render_vars, secrets, authenticated, login_clicked, password_ok,
                   facility_data, displayed, cache>>

\* lines 355-359 and the decorator of line 85: with the overlay asked for,
\* load_facility_data is called; a cached call returns the stored value and
\* replays the messages of the call that computed it
CallLoader ==
    /\ run_pc = "overlay"
    /\ IF ~show_facility_overlay
       THEN /\ run_pc' = "display"
            /\ UNCHANGED <<load_pc, combined_df, messages>>
       ELSE IF cache.set
       THEN /\ combined_df' = cache.value
            /\ messages' = messages \o cache.msgs
            /\ load_pc' = "done"
            /\ run_pc' = "loading"
       ELSE /\ load_pc' = "start"
            /\ run_pc' = "loading"
            /\ UNCHANGED <<combined_df, messages>>
    /\ UNCHANGED <<dir_exists, csv_files, i, consolidated_facilities, render_vars, secrets,
                   authenticated, login_clicked, password_ok, show_facility_overlay,
                   facility_data, map_file, displayed, cache>>

\* lines 359-361: the call returns, its value and messages are cached, and a
\* result without rows is reported
AfterLoad ==
    /\ run_pc = "loading"
    /\ load_pc = "done"
    /\ facility_data' = combined_df
    /\ cache' = [set |-> TRUE, value |-> combined_df, msgs |-> messages]
    /\ messages' = IF NoFacilityData(combined_df)
                   THEN Append(messages, Message("warning", "no_facility_data", NoFile, <<>>))
                   ELSE messages
    /\ load_pc' = "idle"
    /\ run_pc' = "display"
    /\ UNCHANGED <<dir_exists, csv_files, i, consolidated_facilities, combined_df, render_vars,
                   secrets, authenticated, login_clicked, password_ok, show_facility_overlay,
                   map_file, displayed>>

\* lines 364-385: the map file is read, the overlay injected if there are
\* facilities, and the document displayed; a missing file is reported and
\* nothing is displayed.  The rest of the script (lines 387-508, the data
\* table and the footer) neither changes this state nor ends the run early.
Display ==
    /\ run_pc = "display"
    /\ IF ~map_file.exists
       THEN /\ messages' = Append(messages, Message("error", "map_not_found", NoFile, <<>>))
            /\ UNCHANGED <<render_vars, displayed>>
       ELSE IF OverlayReady(show_facility_overlay, facility_data)
       THEN /\ facilities_df' = facility_data
            /\ original_html' = map_file.html
            /\ map_html' = InjectMarkers(map_file.html, facility_data)
            /\ applied' = 1
            /\ displayed' = [shown |-> TRUE, html |-> InjectMarkers(map_file.html, facility_data)]
            /\ UNCHANGED messages
       ELSE /\ map_html' = map_file.html
            /\ displayed' = [shown |-> TRUE, html |-> map_file.html]
            /\ UNCHANGED <<facilities_df, original_html, applied, messages>>
    /\ run_pc' = "end"
    /\ UNCHANGED <<dir_exists, csv_files, load_pc, i, consolidated_facilities, combined_df,
                   secrets, authenticated, login_clicked, password_ok, show_facility_overlay,
                   facility_data, map_file, cache>>

NextSession ==
    \/ RunStart
    \/ LoadSecret
    \/ LoginGate
    \/ Controls
    \/ CallLoader
    \/ LoadStart
    \/ ProcessFile
    \/ LoadFinish
    \/ AfterLoad
    \/ Display

\* what a file of the session's directory may hold: nothing readable, a
\* column lacking, only a row the coordinate mask drops, or two kept rows
SessionContents ==
    {Content(FALSE, {}, <<>>), Content(TRUE, AllColumns \ {"Zip"}, <<RowA, RowB>>),
     Content(TRUE, AllColumns, <<RowOutOfRange>>), Content(TRUE, AllColumns, <<RowA, RowB>>)}

\* a new session: no flag yet, nothing cached, no run made; the secrets and
\* the facility directory are what the deployment has
InitSession ==
    /\ dir_exists \in BOOLEAN
    /\ IF dir_exists
       THEN \E cs \in SeqsUpTo(SessionContents, MaxFiles) : csv_files = Listing(cs)
       ELSE csv_files = <<>>
    /\ load_pc = "idle"
    /\ i = 1
    /\ consolidated_facilities = <<>>
    /\ messages = <<>>
    /\ combined_df = None
    /\ RenderIdle
    /\ secrets \in {"set", "no_key", "no_file"}
    /\ authenticated = "unset"
    /\ run_pc = "wait"
    /\ login_clicked = FALSE
    /\ password_ok = FALSE
    /\ show_facility_overlay = FALSE
    /\ facility_data = None
    /\ map_file = NoMapFile
    /\ displayed = NotShown
    /\ cache = NoCache

SpecSession == InitSession /\ [][NextSession]_vars

-----------------------------------------------------------------------------
(* The script's claims *)

\* the directory gives the loader no row: it is missing, holds no CSV file,
\* or every file is skipped or loses all its rows
NoRowsOnDisk == ~dir_exists \/ ResultRows(csv_files) = <<>>

NoDataWarning == Message("warning", "no_facility_data", NoFile, <<>>)

\* C12: in a run that asks for the overlay while the directory gives the
\* loader no row, the run is not stopped; from the return of the loader on the
\* result counts as no data and the warning is on the page; and at the end of
\* the run the document displayed is the map file's text as read, the
\* renderer not having been called.
C12_NoDataIsNotFatal ==
    (show_facility_overlay /\ NoRowsOnDisk) =>
        /\ run_pc # "stopped"
        /\ run_pc \in {"display", "end"} =>
               /\ NoFacilityData(facility_data)
               /\ \E k \in 1..Len(messages) : messages[k] = NoDataWarning
        /\ (run_pc = "end" /\ map_file.exists) =>
               /\ displayed = [shown |-> TRUE, html |-> map_file.html]
               /\ applied = 0

\* a run ends with the overlay asked for, every row of every file dropped (the
\* loader returns an empty frame), the warning made and the page unchanged
C12_Witness ==
    /\ run_pc = "end"
    /\ show_facility_overlay
    /\ dir_exists
    /\ csv_files # <<>>
    /\ facility_data = Frame(<<>>)
    /\ \E k \in 1..Len(messages) : messages[k] = NoDataWarning
    /\ displayed = [shown |-> TRUE, html |-> <<MapPiece, BodyClose>>]

\* the positions of a run in the code below the login gate
AfterGate == {"controls", "overlay", "loading", "display", "end"}

\* C13: over the runs of a session, a run is in the code below the login gate
\* only with the flag true and the password configured; without the password
\* secret a run gets neither to the gate nor below it; the flag is false when
\* created, once true it stays true, and it becomes true only in the step of
\* the gate in which Login is clicked with the input equal to the password.
C13_DashboardOnlyWhenAuthenticated ==
    /\ [](run_pc \in AfterGate => (authenticated = "true" /\ secrets = "set"))
    /\ [](secrets # "set" => run_pc \notin ({"gate"} \cup AfterGate))
    /\ [][authenticated = "unset" => authenticated' \in {"unset", "false"}]_vars
    /\ [][authenticated = "true" => authenticated' = "true"]_vars
    /\ [][(authenticated # "true" /\ authenticated' = "true") =>
              (run_pc = "gate" /\ login_clicked' /\ password_ok')]_vars

\* a run after the one of the login: no button clicked in it, the flag still
\* true, the run past the gate and the map on the page
C13_Witness ==
    /\ run_pc = "end"
    /\ authenticated = "true"
    /\ ~login_clicked
    /\ displayed.shown

=============================================================================
